---- MODULE Spec2Model ----
(***************************************************************************)
(* Conway's Game of Life on a toroidal grid (OctoPulse, src/Script.ts and  *)
(* its compiled twin).  The module-level state of the script, its event    *)
(* handlers and the requestAnimationFrame loop are modelled as one state   *)
(* machine; every handler runs to completion (single-threaded host), so a  *)
(* handler is one action.                                                  *)
(***************************************************************************)
EXTENDS Integers, Naturals, Sequences, FiniteSets, TLC

\* ------------------------------------------------------------------------
\* Bounds of the model (not program constants)
\* ------------------------------------------------------------------------
\* largest number of rows / columns the viewport can yield
MaxDim == 2
\* largest number of cells (rows * cols) the viewport can yield
MaxCells == 4
\* largest number of rows / columns of the grids the engine is run on alone
EngDim == 3
\* largest number of cells of those grids
EngCells == 9
\* largest extent of the grids that hold a single placed pattern
PatDim == 5
\* largest value the speed slider can deliver
MaxSpeed == 2
\* last frame timestamp (ms) the host delivers
MaxTime == 1000

\* ------------------------------------------------------------------------
\* Program constants
\* ------------------------------------------------------------------------
CELL_SIZE == 10
DEFAULT_SPEED == 2
\* the literal 1000 of `interval = 1000 / speed`
MS_PER_SECOND == 1000
\* the sentinel value toggleCell / randomizeGrid store for a live cell
ALIVE == 3
\* index produced by `x % 0` (NaN in the script): never a valid index
NaN == -1
\* resolution of the modelled random source: Math.random() returns a
\* multiple of 1 / DrawScale
DrawScale == 10
\* RANDOM_DENSITY = 0.3, in units of 1 / DrawScale
RANDOM_DENSITY == 3

VARIABLES
    rows,        \* let rows
    cols,        \* let cols
    grid,        \* let grid : [0..rows-1 -> [0..cols-1 -> Nat]]
    isPlaying,   \* let isPlaying
    speed,       \* let speed
    lastUpdate,  \* let lastUpdate
    started,     \* FALSE while the script body is still running
    now,         \* timestamp of the last frame the host delivered
    pending,     \* number of frame callbacks registered and not yet run
    drawn,       \* what the last draw() painted: rows, cols and grid
    last         \* observation of the handler that ran last

vars == <<rows, cols, grid, isPlaying, speed, lastUpdate, started, now,
          pending, drawn, last>>

\* ------------------------------------------------------------------------
\* Helpers for JavaScript arrays and arithmetic
\* ------------------------------------------------------------------------
Min(a, b) == IF a < b THEN a ELSE b

\* Array.prototype.length of a 0-indexed array
Length(a) == Cardinality(DOMAIN a)

\* a[r][c] names an existing element
InRange(g, r, c) == r \in DOMAIN g /\ c \in DOMAIN g[r]

\* JavaScript `a % b`: the sign follows the dividend, `% 0` is NaN
JSRem(a, b) ==
    IF b = 0 THEN NaN
    ELSE IF a >= 0 THEN a % b
    ELSE 0 - ((0 - a) % b)

\* Math.floor(a / b) for b > 0
FloorDiv(a, b) == a \div b

\* ------------------------------------------------------------------------
\* Grid management
\* ------------------------------------------------------------------------
\* createEmptyGrid with rows and cols taken for one another
createEmptyGridTransposed(rs, cs) ==
    [i \in 0..(cs - 1) |-> [j \in 0..(rs - 1) |-> 0]]

createEmptyGrid(rs, cs) ==
    [i \in 0..(rs - 1) |-> [j \in 0..(cs - 1) |-> 0]]

\* The two nested loops of countNeighbors, flattened: k = 3*(i+1) + (j+1).
\* count: the value returned; oob: some grid[neighborRow][neighborCol] named
\* no element; modzero: a `% 0` was evaluated.
RECURSIVE countNeighborsLoop(_, _, _, _, _, _)
countNeighborsLoop(g, rs, cs, row, col, k) ==
    IF k > 8 THEN [count |-> 0, oob |-> FALSE, modzero |-> FALSE]
    ELSE
        LET i == (k \div 3) - 1
            j == (k % 3) - 1
            rest == countNeighborsLoop(g, rs, cs, row, col, k + 1)
        IN  IF i = 0 /\ j = 0 THEN rest
            ELSE
                LET neighborRow == JSRem(row + i + rs, rs)
                    neighborCol == JSRem(col + j + cs, cs)
                    ok == InRange(g, neighborRow, neighborCol)
                    live == ok /\ g[neighborRow][neighborCol] > 0
                IN  [count   |-> rest.count + (IF live THEN 1 ELSE 0),
                     oob     |-> rest.oob \/ ~ok,
                     modzero |-> rest.modzero \/ rs = 0 \/ cs = 0]

\* countNeighbors without `if (i === 0 && j === 0) continue`
countNeighborsSelf(g, rs, cs, row, col) ==
    LET n == countNeighborsLoop(g, rs, cs, row, col, 0)
    IN  [n EXCEPT !.count = n.count + (IF g[row][col] > 0 THEN 1 ELSE 0)]

\* countNeighbors that skips the neighbours beyond an edge instead of wrapping
countNeighborsNoWrap(g, rs, cs, row, col) ==
    [count   |-> Cardinality({o \in (-1..1) \X (-1..1) :
                     /\ o # <<0, 0>>
                     /\ InRange(g, row + o[1], col + o[2])
                     /\ g[row + o[1]][col + o[2]] > 0}),
     oob     |-> FALSE,
     modzero |-> FALSE]

countNeighbors(g, rs, cs, row, col) ==
    countNeighborsLoop(g, rs, cs, row, col, 0)

\* The two nested loops of computeNextGeneration, flattened in row-major
\* order: k = i*cols + j.  Neighbour counts read g (the global grid, which is
\* reassigned only after the loops); the writes go to newGrid.
RECURSIVE computeNextGenerationLoop(_, _, _, _, _)
computeNextGenerationLoop(g, newGrid, rs, cs, k) ==
    IF k >= rs * cs
    THEN [grid |-> newGrid, calls |-> 0, oob |-> FALSE, modzero |-> FALSE]
    ELSE
        LET i == k \div cs
            j == k % cs
            n == countNeighbors(g, rs, cs, i, j)
            neighbors == n.count
            isAlive == g[i][j] > 0
            written ==
                IF isAlive /\ (neighbors = 2 \/ neighbors = 3)
                THEN [newGrid EXCEPT ![i][j] = neighbors]
                ELSE IF ~isAlive /\ neighbors = 3
                THEN [newGrid EXCEPT ![i][j] = neighbors]
                ELSE newGrid
            rest == computeNextGenerationLoop(g, written, rs, cs, k + 1)
        IN  [grid    |-> rest.grid,
             calls   |-> rest.calls + 1,
             oob     |-> rest.oob \/ n.oob,
             modzero |-> rest.modzero \/ n.modzero]

\* computeNextGeneration writing each cell back into the grid it is reading
RECURSIVE inPlaceLoop(_, _, _, _)
inPlaceLoop(g, rs, cs, k) ==
    IF k >= rs * cs
    THEN [grid |-> g, calls |-> 0, oob |-> FALSE, modzero |-> FALSE]
    ELSE
        LET i == k \div cs
            j == k % cs
            n == countNeighbors(g, rs, cs, i, j)
            neighbors == n.count
            isAlive == g[i][j] > 0
            keep == (isAlive /\ (neighbors = 2 \/ neighbors = 3))
                        \/ (~isAlive /\ neighbors = 3)
            written == [g EXCEPT ![i][j] = IF keep THEN neighbors ELSE 0]
            rest == inPlaceLoop(written, rs, cs, k + 1)
        IN  [grid    |-> rest.grid,
             calls   |-> rest.calls + 1,
             oob     |-> rest.oob \/ n.oob,
             modzero |-> rest.modzero \/ n.modzero]

computeNextGenerationInPlace(g, rs, cs) == inPlaceLoop(g, rs, cs, 0)

\* computeNextGeneration with do-while loops: the body runs once even when
\* there is no cell
computeNextGenerationDoWhile(g, rs, cs) ==
    IF rs * cs > 0
    THEN computeNextGenerationLoop(g, createEmptyGrid(rs, cs), rs, cs, 0)
    ELSE LET n == countNeighbors(g, rs, cs, 0, 0)
         IN  [grid |-> createEmptyGrid(rs, cs), calls |-> 1,
              oob |-> n.oob, modzero |-> n.modzero]

\* computeNextGeneration without the underpopulation rule: a live cell with
\* fewer than 2 live neighbours keeps the value it has
computeNextGenerationNoUnderpopulation(g, rs, cs) ==
    LET r == computeNextGenerationLoop(g, createEmptyGrid(rs, cs), rs, cs, 0)
    IN  [r EXCEPT !.grid =
            [i \in 0..(rs - 1) |-> [j \in 0..(cs - 1) |->
                IF g[i][j] > 0 /\ countNeighbors(g, rs, cs, i, j).count < 2
                THEN g[i][j]
                ELSE r.grid[i][j]]]]

computeNextGeneration(g, rs, cs) ==
    computeNextGenerationLoop(g, createEmptyGrid(rs, cs), rs, cs, 0)

\* Math.random() returns a number r with 0 <= r < 1: a draw d stands for
\* r = d / DrawScale, and a density is given in the same unit
Draws == 0..(DrawScale - 1)

\* the least and the greatest draw
ExtremeDraws == {0, DrawScale - 1}

\* Math.random() > (1 - density) ? 3 : 0
randomCell(draw, density) ==
    IF draw > DrawScale - density THEN ALIVE ELSE 0

\* randomizeGrid at a given density, draw[i][j] being the draw for cell (i, j)
randomizeGridAt(rs, cs, density, draw) ==
    [i \in 0..(rs - 1) |->
        [j \in 0..(cs - 1) |-> randomCell(draw[i][j], density)]]

randomizeGrid(rs, cs, draw) ==
    randomizeGridAt(rs, cs, RANDOM_DENSITY, draw)

\* toggleCell storing 1 for a cell it brings to life
toggleCellOne(g, rs, cs, row, col) ==
    IF row >= 0 /\ row < rs /\ col >= 0 /\ col < cs
    THEN [grid |-> [g EXCEPT ![row][col] = IF g[row][col] > 0 THEN 0 ELSE 1],
          hit |-> TRUE, oob |-> FALSE]
    ELSE [grid |-> g, hit |-> FALSE, oob |-> FALSE]

\* toggleCell that only ever brings a cell to life
toggleCellSetOnly(g, rs, cs, row, col) ==
    IF row >= 0 /\ row < rs /\ col >= 0 /\ col < cs
    THEN [grid |-> [g EXCEPT ![row][col] = ALIVE],
          hit |-> TRUE, oob |-> FALSE]
    ELSE [grid |-> g, hit |-> FALSE, oob |-> FALSE]

\* toggleCell with the bounds test row <= rows, col <= cols
toggleCellOffByOne(g, rs, cs, row, col) ==
    IF row >= 0 /\ row <= rs /\ col >= 0 /\ col <= cs
    THEN IF InRange(g, row, col)
         THEN [grid |-> [g EXCEPT ![row][col] =
                            IF g[row][col] > 0 THEN 0 ELSE ALIVE],
               hit |-> TRUE, oob |-> FALSE]
         ELSE [grid |-> g, hit |-> TRUE, oob |-> TRUE]
    ELSE [grid |-> g, hit |-> FALSE, oob |-> FALSE]

\* hit: the bounds test passed and the cell was flipped
toggleCell(g, rs, cs, row, col) ==
    IF row >= 0 /\ row < rs /\ col >= 0 /\ col < cs
    THEN IF InRange(g, row, col)
         THEN [grid |-> [g EXCEPT ![row][col] =
                            IF g[row][col] > 0 THEN 0 ELSE ALIVE],
               hit |-> TRUE, oob |-> FALSE]
         ELSE [grid |-> g, hit |-> TRUE, oob |-> TRUE]
    ELSE [grid |-> g, hit |-> FALSE, oob |-> FALSE]

\* The copy loops of resizeCanvas, flattened: the loop bounds are
\* li = Math.min(rows, oldGrid.length), lj = Math.min(cols, oldGrid[0].length).
RECURSIVE copyLoop(_, _, _, _, _)
copyLoop(oldGrid, g, li, lj, k) ==
    IF k >= li * lj THEN [grid |-> g, oob |-> FALSE]
    ELSE
        LET i == k \div lj
            j == k % lj
            ok == InRange(oldGrid, i, j) /\ InRange(g, i, j)
            written == IF ok THEN [g EXCEPT ![i][j] = oldGrid[i][j]] ELSE g
            rest == copyLoop(oldGrid, written, li, lj, k + 1)
        IN  [grid |-> rest.grid, oob |-> rest.oob \/ ~ok]

\* resizeCanvas copying newRows x newCols cells whatever the old grid holds
resizeGridNoMin(oldGrid, newRows, newCols) ==
    IF Length(oldGrid) > 0
    THEN copyLoop(oldGrid, createEmptyGrid(newRows, newCols),
                  newRows, newCols, 0)
    ELSE [grid |-> createEmptyGrid(newRows, newCols), oob |-> FALSE]

\* The grid part of resizeCanvas: a fresh newRows x newCols grid with the
\* overlapping region of oldGrid copied in.
resizeGrid(oldGrid, newRows, newCols) ==
    IF Length(oldGrid) > 0
    THEN copyLoop(oldGrid, createEmptyGrid(newRows, newCols),
                  Min(newRows, Length(oldGrid)),
                  Min(newCols, Length(oldGrid[0])), 0)
    ELSE [grid |-> createEmptyGrid(newRows, newCols), oob |-> FALSE]

\* animate's test with > in place of >=
intervalElapsedStrict(timestamp, lu, sp) ==
    IF sp = 0 THEN FALSE
    ELSE (timestamp - lu) * sp > MS_PER_SECOND

\* animate's test `timestamp - lastUpdate >= 1000 / speed`.  1000 / speed is
\* a real quotient; for speed > 0 the comparison is cross-multiplied, for
\* speed = 0 the quotient is Infinity and the test fails.
intervalElapsed(timestamp, lu, sp) ==
    IF sp = 0 THEN FALSE
    ELSE (timestamp - lu) * sp >= MS_PER_SECOND

\* ------------------------------------------------------------------------
\* Inputs
\* ------------------------------------------------------------------------
\* canvas.width / canvas.height in pixels: 0, 11, 22, ... (a whole number of
\* cells plus a remainder that Math.floor drops)
PixelSizes == {d * CELL_SIZE + d : d \in 0..MaxDim}

\* click offsets relative to the canvas in pixels (left of / above it too)
ClickOffsets == {0 - 1} \cup {d * CELL_SIZE + 5 : d \in 0..MaxDim}

\* values the speed slider delivers
Speeds == 0..MaxSpeed

\* time between two frames in ms
FrameDeltas == {500, 1000}

\* shorter gaps between two frame callbacks, for the pacer on its own
PacerDeltas == {125, 250, 500}

\* What the handler that ran last did: its name, whether a click fell inside
\* the grid, and how many generations it computed, countNeighbors calls it
\* made, draw() calls it made and frame callbacks it registered; oob: it
\* indexed outside an array; modzero: it evaluated a `% 0`.
Obs(op) ==
    [op |-> op, hit |-> FALSE, gens |-> 0, calls |-> 0, draws |-> 0,
     regs |-> 0, oob |-> FALSE, modzero |-> FALSE]

\* the arguments of a draw() call: the globals it reads
Frame(rs, cs, g) == [rows |-> rs, cols |-> cs, grid |-> g]

\* ------------------------------------------------------------------------
\* Initial state: the declarations of lines 30-35, before the script body
\* has called resizeCanvas() and requestAnimationFrame(animate)
\* ------------------------------------------------------------------------
Init ==
    /\ rows = 0
    /\ cols = 0
    /\ grid = << >>
    /\ isPlaying = FALSE
    /\ speed = DEFAULT_SPEED
    /\ lastUpdate = 0
    /\ started = FALSE
    /\ now = 0
    /\ pending = 0
    /\ drawn = Frame(0, 0, << >>)
    /\ last = Obs("load")

\* ------------------------------------------------------------------------
\* Actions
\* ------------------------------------------------------------------------
\* resizeCanvas for a canvas of width x height pixels
resizeCanvas(width, height) ==
    LET newCols == FloorDiv(width, CELL_SIZE)
        newRows == FloorDiv(height, CELL_SIZE)
        r == resizeGrid(grid, newRows, newCols)
    IN  /\ newRows * newCols <= MaxCells
        /\ cols' = newCols
        /\ rows' = newRows
        /\ grid' = r.grid
        /\ drawn' = Frame(newRows, newCols, r.grid)
        /\ last' = [Obs("resize") EXCEPT
                       !.draws = 1, !.oob = r.oob,
                       !.regs = IF started THEN 0 ELSE 1]

\* lines 328-329: resizeCanvas(); requestAnimationFrame(animate);
Initialization ==
    /\ ~started
    /\ \E width \in PixelSizes, height \in PixelSizes :
          resizeCanvas(width, height)
    /\ started' = TRUE
    /\ pending' = pending + 1
    /\ UNCHANGED <<isPlaying, speed, lastUpdate, now>>

\* window 'resize' event
handleResize ==
    /\ started
    /\ \E width \in PixelSizes, height \in PixelSizes :
          resizeCanvas(width, height)
    /\ UNCHANGED <<isPlaying, speed, lastUpdate, started, now, pending>>

\* animate calling requestAnimationFrame only while playing
animateAtWhilePlaying(timestamp) ==
    LET interval == intervalElapsed(timestamp, lastUpdate, speed)
        r == computeNextGeneration(grid, rows, cols)
        regs == IF isPlaying THEN 1 ELSE 0
    IN  /\ IF isPlaying /\ interval
           THEN /\ grid' = r.grid
                /\ drawn' = Frame(rows, cols, r.grid)
                /\ lastUpdate' = timestamp
                /\ last' = [Obs("animate") EXCEPT
                               !.gens = 1, !.calls = r.calls,
                               !.oob = r.oob, !.modzero = r.modzero,
                               !.draws = 1, !.regs = regs]
           ELSE /\ UNCHANGED <<grid, drawn, lastUpdate>>
                /\ last' = [Obs("animate") EXCEPT !.regs = regs]
        /\ pending' = (pending - 1) + regs
        /\ UNCHANGED <<rows, cols, isPlaying, speed, started>>

\* animate that advances without recording the time of the advance
animateAtNoStamp(timestamp) ==
    LET interval == intervalElapsed(timestamp, lastUpdate, speed)
        r == computeNextGeneration(grid, rows, cols)
    IN  /\ IF isPlaying /\ interval
           THEN /\ grid' = r.grid
                /\ drawn' = Frame(rows, cols, r.grid)
                /\ last' = [Obs("animate") EXCEPT
                               !.gens = 1, !.calls = r.calls,
                               !.oob = r.oob, !.modzero = r.modzero,
                               !.draws = 1, !.regs = 1]
           ELSE /\ UNCHANGED <<grid, drawn>>
                /\ last' = [Obs("animate") EXCEPT !.regs = 1]
        /\ pending' = (pending - 1) + 1
        /\ UNCHANGED <<rows, cols, isPlaying, speed, started, lastUpdate>>

\* the frame callback, run by the host with the given timestamp
animateAt(timestamp) ==
    LET interval == intervalElapsed(timestamp, lastUpdate, speed)
        r == computeNextGeneration(grid, rows, cols)
    IN  /\ IF isPlaying /\ interval
           THEN /\ grid' = r.grid
                /\ drawn' = Frame(rows, cols, r.grid)
                /\ lastUpdate' = timestamp
                /\ last' = [Obs("animate") EXCEPT
                               !.gens = 1, !.calls = r.calls,
                               !.oob = r.oob, !.modzero = r.modzero,
                               !.draws = 1, !.regs = 1]
           ELSE /\ UNCHANGED <<grid, drawn, lastUpdate>>
                /\ last' = [Obs("animate") EXCEPT !.regs = 1]
        /\ pending' = (pending - 1) + 1
        /\ UNCHANGED <<rows, cols, isPlaying, speed, started>>

\* the host runs a pending frame callback at a timestamp later than the last
animate ==
    /\ started
    /\ pending > 0
    /\ \E d \in FrameDeltas :
          /\ now + d <= MaxTime
          /\ now' = now + d
          /\ animateAt(now + d)

\* the host runs the pending frame callback at short intervals
animateOften ==
    /\ started
    /\ pending > 0
    /\ \E d \in PacerDeltas :
          /\ now + d <= MaxTime
          /\ now' = now + d
          /\ animateAt(now + d)

\* animateForever that restarts the interval on every frame callback
animateForeverRestamp ==
    /\ started
    /\ pending > 0
    /\ \E d \in PacerDeltas :
          LET timestamp == Min(now + d, MaxTime)
              interval == intervalElapsed(timestamp, lastUpdate, speed)
              r == computeNextGeneration(grid, rows, cols)
          IN  /\ IF isPlaying /\ interval
                 THEN /\ grid' = r.grid
                      /\ drawn' = Frame(rows, cols, r.grid)
                      /\ last' = [Obs("animate") EXCEPT
                                     !.gens = 1, !.calls = r.calls,
                                     !.oob = r.oob, !.modzero = r.modzero,
                                     !.draws = 1, !.regs = 1]
                 ELSE /\ UNCHANGED <<grid, drawn>>
                      /\ last' = [Obs("animate") EXCEPT !.regs = 1]
              /\ lastUpdate' = timestamp - timestamp
              /\ now' = timestamp - timestamp
              /\ pending' = (pending - 1) + 1
              /\ UNCHANGED <<rows, cols, isPlaying, speed, started>>

\* The frame callback under a host that never stops calling it.  animate
\* reads the clock only in `timestamp - lastUpdate`, so the clock is kept
\* relative to the last advance (an advance at timestamp leaves lastUpdate
\* and now at timestamp - timestamp) and stops counting at MaxTime, from
\* where on every test with speed >= 1 gives the same answer.
animateForever ==
    /\ started
    /\ pending > 0
    /\ \E d \in PacerDeltas :
          LET timestamp == Min(now + d, MaxTime)
              interval == intervalElapsed(timestamp, lastUpdate, speed)
              r == computeNextGeneration(grid, rows, cols)
          IN  /\ IF isPlaying /\ interval
                 THEN /\ grid' = r.grid
                      /\ drawn' = Frame(rows, cols, r.grid)
                      /\ lastUpdate' = timestamp - timestamp
                      /\ now' = timestamp - timestamp
                      /\ last' = [Obs("animate") EXCEPT
                                     !.gens = 1, !.calls = r.calls,
                                     !.oob = r.oob, !.modzero = r.modzero,
                                     !.draws = 1, !.regs = 1]
                 ELSE /\ UNCHANGED <<grid, drawn, lastUpdate>>
                      /\ now' = timestamp
                      /\ last' = [Obs("animate") EXCEPT !.regs = 1]
              /\ pending' = (pending - 1) + 1
              /\ UNCHANGED <<rows, cols, isPlaying, speed, started>>

\* handlePlayPause that restarts the interval when it toggles
handlePlayPauseStamp ==
    /\ started
    /\ isPlaying' = ~isPlaying
    /\ lastUpdate' = now
    /\ last' = Obs("playPause")
    /\ UNCHANGED <<rows, cols, grid, speed, started, now, pending, drawn>>

handlePlayPause ==
    /\ started
    /\ isPlaying' = ~isPlaying
    /\ last' = Obs("playPause")
    /\ UNCHANGED <<rows, cols, grid, speed, lastUpdate, started, now,
                   pending, drawn>>

\* handleStep without its draw()
handleStepNoDraw ==
    /\ started
    /\ LET r == computeNextGeneration(grid, rows, cols)
       IN  /\ grid' = r.grid
           /\ last' = [Obs("step") EXCEPT
                          !.gens = 1, !.calls = r.calls, !.oob = r.oob,
                          !.modzero = r.modzero]
    /\ UNCHANGED <<rows, cols, isPlaying, speed, lastUpdate, started, now,
                   pending, drawn>>

handleStep ==
    /\ started
    /\ LET r == computeNextGeneration(grid, rows, cols)
       IN  /\ grid' = r.grid
           /\ drawn' = Frame(rows, cols, r.grid)
           /\ last' = [Obs("step") EXCEPT
                          !.gens = 1, !.calls = r.calls, !.oob = r.oob,
                          !.modzero = r.modzero, !.draws = 1]
    /\ UNCHANGED <<rows, cols, isPlaying, speed, lastUpdate, started, now,
                   pending>>

\* handleClear without its draw()
handleClearNoDraw ==
    /\ started
    /\ grid' = createEmptyGrid(rows, cols)
    /\ last' = Obs("clear")
    /\ UNCHANGED <<rows, cols, isPlaying, speed, lastUpdate, started, now,
                   pending, drawn>>

handleClear ==
    /\ started
    /\ grid' = createEmptyGrid(rows, cols)
    /\ drawn' = Frame(rows, cols, grid')
    /\ last' = [Obs("clear") EXCEPT !.draws = 1]
    /\ UNCHANGED <<rows, cols, isPlaying, speed, lastUpdate, started, now,
                   pending>>

\* draw[i][j]: what Math.random() returns for cell (i, j)
handleRandomWith(draw) ==
    /\ grid' = randomizeGrid(rows, cols, draw)
    /\ drawn' = Frame(rows, cols, grid')
    /\ last' = [Obs("random") EXCEPT !.draws = 1]
    /\ UNCHANGED <<rows, cols, isPlaying, speed, lastUpdate, started, now,
                   pending>>

handleRandom ==
    /\ started
    /\ \E draw \in [0..(rows - 1) -> [0..(cols - 1) -> ExtremeDraws]] :
          handleRandomWith(draw)

handleSpeedChange ==
    /\ started
    /\ \E value \in Speeds : speed' = value
    /\ last' = Obs("speed")
    /\ UNCHANGED <<rows, cols, grid, isPlaying, lastUpdate, started, now,
                   pending, drawn>>

\* a click at offset (x, y) from the canvas' top-left corner
handleCanvasClickAt(x, y) ==
    LET col == FloorDiv(x, CELL_SIZE)
        row == FloorDiv(y, CELL_SIZE)
        r == toggleCell(grid, rows, cols, row, col)
    IN  /\ grid' = r.grid
        /\ drawn' = Frame(rows, cols, r.grid)
        /\ last' = [Obs("click") EXCEPT
                       !.hit = r.hit, !.oob = r.oob, !.draws = 1]
        /\ UNCHANGED <<rows, cols, isPlaying, speed, lastUpdate, started,
                       now, pending>>

handleCanvasClick ==
    /\ started
    /\ \E x \in ClickOffsets, y \in ClickOffsets : handleCanvasClickAt(x, y)

Next ==
    \/ Initialization
    \/ handleResize
    \/ animate
    \/ handlePlayPause
    \/ handleStep
    \/ handleClear
    \/ handleRandom
    \/ handleSpeedChange
    \/ handleCanvasClick

Spec == Init /\ [][Next]_vars

\* ------------------------------------------------------------------------
\* The grid engine alone: every grid of up to EngDim rows and columns and
\* EngCells cells that clicks or randomizeGrid can build (cells 0 or 3),
\* advanced by Step
\* ------------------------------------------------------------------------
InitEngine ==
    /\ rows \in 1..EngDim
    /\ cols \in 1..EngDim
    /\ rows * cols <= EngCells
    /\ grid \in [0..(rows - 1) -> [0..(cols - 1) -> {0, ALIVE}]]
    /\ isPlaying = FALSE
    /\ speed = DEFAULT_SPEED
    /\ lastUpdate = 0
    /\ started = TRUE
    /\ now = 0
    /\ pending = 1
    /\ drawn = Frame(rows, cols, grid)
    /\ last = [Obs("random") EXCEPT !.draws = 1]

NextEngine == handleStep

SpecEngine == InitEngine /\ [][NextEngine]_vars

\* ------------------------------------------------------------------------
\* Placed patterns: a grid of 4..PatDim rows and columns on which clicks
\* (toggleCell, dead -> 3) have drawn one pattern, at any position and across
\* the wrapped edges, advanced by Step
\* ------------------------------------------------------------------------
PatternGrid(rs, cs, S) ==
    [i \in 0..(rs - 1) |-> [j \in 0..(cs - 1) |->
        IF <<i, j>> \in S THEN ALIVE ELSE 0]]

\* the 2 x 2 block whose top-left cell is (r, c)
BlockCells(rs, cs, r, c) ==
    {<<r, c>>, <<r, (c + 1) % cs>>,
     <<(r + 1) % rs, c>>, <<(r + 1) % rs, (c + 1) % cs>>}

\* three cells in a row, resp. in a column, centred on (r, c)
HorizontalTriple(rs, cs, r, c) ==
    {<<r, (c + cs - 1) % cs>>, <<r, c>>, <<r, (c + 1) % cs>>}

VerticalTriple(rs, cs, r, c) ==
    {<<(r + rs - 1) % rs, c>>, <<r, c>>, <<(r + 1) % rs, c>>}

InitPattern ==
    /\ rows \in 4..PatDim
    /\ cols \in 4..PatDim
    /\ \E r \in 0..(rows - 1), c \in 0..(cols - 1) :
          \/ grid = PatternGrid(rows, cols, BlockCells(rows, cols, r, c))
          \/ /\ rows >= 5
             /\ cols >= 5
             /\ grid = PatternGrid(rows, cols,
                                   HorizontalTriple(rows, cols, r, c))
    /\ isPlaying = FALSE
    /\ speed = DEFAULT_SPEED
    /\ lastUpdate = 0
    /\ started = TRUE
    /\ now = 0
    /\ pending = 1
    /\ drawn = Frame(rows, cols, grid)
    /\ last = [Obs("click") EXCEPT !.hit = TRUE, !.draws = 1]

NextPattern == handleStep

SpecPattern == InitPattern /\ [][NextPattern]_vars

\* ------------------------------------------------------------------------
\* The pacer alone: a 5 x 5 grid holding a horizontal triple, the frame
\* callback at short intervals, Play/Pause and the speed slider
\* ------------------------------------------------------------------------
InitPacer ==
    /\ rows = 5
    /\ cols = 5
    /\ grid = PatternGrid(5, 5, HorizontalTriple(5, 5, 2, 2))
    /\ isPlaying = FALSE
    /\ speed = DEFAULT_SPEED
    /\ lastUpdate = 0
    /\ started = TRUE
    /\ now = 0
    /\ pending = 1
    /\ drawn = Frame(rows, cols, grid)
    /\ last = [Obs("click") EXCEPT !.hit = TRUE, !.draws = 1]

NextPacer ==
    \/ animateOften
    \/ handlePlayPause
    \/ handleSpeedChange

SpecPacer == InitPacer /\ [][NextPacer]_vars

\* The pacer under a host that keeps running the pending frame callback, from
\* the state Initialization leaves on a canvas smaller than one cell: the
\* grid plays no part in the pacing, and with no cell the enabling condition
\* of the frame callback stays cheap to evaluate.
InitForever ==
    /\ rows = 0
    /\ cols = 0
    /\ grid = createEmptyGrid(0, 0)
    /\ isPlaying = FALSE
    /\ speed = DEFAULT_SPEED
    /\ lastUpdate = 0
    /\ started = TRUE
    /\ now = 0
    /\ pending = 1
    /\ drawn = Frame(rows, cols, grid)
    /\ last = [Obs("resize") EXCEPT !.draws = 1, !.regs = 1]

NextForever ==
    \/ animateForever
    \/ handlePlayPause
    \/ handleSpeedChange

SpecForever ==
    InitForever /\ [][NextForever]_vars /\ WF_vars(animateForever)

\* ------------------------------------------------------------------------
\* Properties
\* ------------------------------------------------------------------------
Cells == {<<i, j>> : i \in 0..(rows - 1), j \in 0..(cols - 1)}

\* the 8 offsets of the Moore neighbourhood
MooreOffsets == ((-1..1) \X (-1..1)) \ {<<0, 0>>}

\* the cells other than (r, c) are all dead
OnlyLive(r, c) ==
    /\ <<r, c>> \in Cells
    /\ \A p \in Cells : grid[p[1]][p[2]] > 0 <=> p = <<r, c>>

\* C1: the grid computeNextGeneration installs holds, in every cell, the
\* neighbour count n of that cell in the old grid when the cell was alive and
\* n is 2 or 3, 3 when it was dead and n = 3, and 0 otherwise; every count is
\* taken on the old grid, and the new grid has the old dimensions.
C1_NextGenerationRule ==
    [][last'.gens = 1 =>
        /\ rows' = rows /\ cols' = cols
        /\ DOMAIN grid' = 0..(rows - 1)
        /\ \A i \in 0..(rows - 1) :
              /\ DOMAIN grid'[i] = 0..(cols - 1)
              /\ \A j \in 0..(cols - 1) :
                    LET n == countNeighbors(grid, rows, cols, i, j).count
                    IN  grid'[i][j] =
                            IF grid[i][j] > 0 /\ n \in {2, 3} THEN n
                            ELSE IF grid[i][j] = 0 /\ n = 3 THEN 3
                            ELSE 0]_vars

\* a generation was computed and left a survivor holding 2 next to a cell
\* holding 3
C1_Witness ==
    /\ last.op = "step" /\ last.gens = 1
    /\ \E p \in Cells : grid[p[1]][p[2]] = 2
    /\ \E p \in Cells : grid[p[1]][p[2]] = 3

\* C2: for every in-bounds cell countNeighbors returns the number of the 8
\* offsets whose toroidally wrapped position holds a positive value (a
\* position counted once per offset that maps to it); the result is in 0..8,
\* no index is out of range, a live cell on an axis of extent 1 counts itself
\* and a live cell on a 1 x 1 grid has count 8.
C2_CountNeighbors ==
    \A p \in Cells :
        LET row == p[1]
            col == p[2]
            r == countNeighbors(grid, rows, cols, row, col)
            wrapped == {o \in MooreOffsets :
                          grid[(row + o[1] + rows) % rows]
                              [(col + o[2] + cols) % cols] > 0}
        IN  /\ r.count = Cardinality(wrapped)
            /\ r.count \in 0..8
            /\ ~r.oob /\ ~r.modzero
            /\ (grid[row][col] > 0 /\ (rows = 1 \/ cols = 1)) => r.count >= 2
            /\ (grid[row][col] > 0 /\ rows = 1 /\ cols = 1) => r.count = 8

\* the live cell of a 1 x 1 grid counts itself 8 times
C2_Witness ==
    /\ rows = 1 /\ cols = 1 /\ grid[0][0] > 0
    /\ countNeighbors(grid, rows, cols, 0, 0).count = 8

\* C10: on a grid with rows, cols >= 2 whose only live cell is (0,0), the
\* corners (rows-1, cols-1), (0, cols-1) and (rows-1, 0) each count at least
\* one neighbour, and exactly one when rows, cols >= 3; and a single live cell
\* at any of those three corners is counted by countNeighbors(0, 0).
C10_CornerWrap ==
    (rows >= 2 /\ cols >= 2) =>
        \A c \in {<<rows - 1, cols - 1>>, <<0, cols - 1>>, <<rows - 1, 0>>} :
            /\ OnlyLive(0, 0) =>
                  LET n == countNeighbors(grid, rows, cols, c[1], c[2]).count
                  IN  /\ n >= 1
                      /\ (rows >= 3 /\ cols >= 3) => n = 1
            /\ OnlyLive(c[1], c[2]) =>
                  countNeighbors(grid, rows, cols, 0, 0).count >= 1

\* a 3 x 3 grid whose only live cell is (0,0): the opposite corner sees it
C10_Witness ==
    /\ rows = 3 /\ cols = 3 /\ OnlyLive(0, 0)
    /\ countNeighbors(grid, rows, cols, 2, 2).count = 1

\* B3/S23 on the torus, stated cell by cell
LiveNeighbours(g, rs, cs, r, c) ==
    Cardinality({o \in MooreOffsets :
                    g[(r + o[1] + rs) % rs][(c + o[2] + cs) % cs] > 0})

Generation(g, rs, cs) ==
    [i \in 0..(rs - 1) |->
        [j \in 0..(cs - 1) |->
            LET n == LiveNeighbours(g, rs, cs, i, j)
            IN  IF g[i][j] > 0 /\ n \in {2, 3} THEN n
                ELSE IF g[i][j] = 0 /\ n = 3 THEN 3
                ELSE 0]]

C4_FrameCallback ==
    [][last'.op = "animate" =>
        LET timestamp == now'
            due == speed > 0 /\ (timestamp - lastUpdate) * speed >= 1000
            same == grid' = grid /\ lastUpdate' = lastUpdate /\ last'.gens = 0
        IN  /\ ~isPlaying => same
            /\ (isPlaying /\ due) =>
                  /\ last'.gens = 1
                  /\ grid' = Generation(grid, rows, cols)
                  /\ lastUpdate' = timestamp
            /\ (isPlaying /\ ~due) => same]_vars

\* a frame callback has just advanced a generation at its timestamp
C4_Witness ==
    /\ last.op = "animate" /\ last.gens = 1
    /\ isPlaying /\ lastUpdate = now /\ now > 0

\* C5: every run of animate registers exactly one next frame callback,
\* playing or paused, advancing or not; so once the script has started
\* exactly one frame callback is pending in every state, whatever handlers
\* run (there is always a next callback to run).
C5_OneFramePending ==
    /\ started => pending = 1
    /\ ~started => pending = 0
    /\ last.op = "animate" => last.regs = 1
    /\ last.op \in {"playPause", "step", "clear", "random", "speed", "click"}
          => last.regs = 0

\* a paused frame callback has run and one callback is pending again
C5_Witness ==
    /\ last.op = "animate" /\ ~isPlaying /\ last.gens = 0
    /\ pending = 1 /\ now > 0

\* C6: a resize from oldRows x oldCols to newRows x newCols yields a
\* newRows x newCols grid that holds old[i][j] wherever i < min(oldRows,
\* newRows) and j < min(oldCols, newCols) and 0 everywhere else, and indexes
\* no array out of range (zero dimensions included).
C6_ResizePreserves ==
    [][last'.op = "resize" =>
        /\ DOMAIN grid' = 0..(rows' - 1)
        /\ \A i \in 0..(rows' - 1) :
              /\ DOMAIN grid'[i] = 0..(cols' - 1)
              /\ \A j \in 0..(cols' - 1) :
                    grid'[i][j] =
                        IF i < Min(rows, rows') /\ j < Min(cols, cols')
                        THEN grid[i][j]
                        ELSE 0
        /\ ~last'.oob]_vars

\* a resize after start-up produced a 2 x 2 grid that kept a live cell at
\* (0,0) and has a dead cell at (1,1)
C6_Witness ==
    /\ last.op = "resize" /\ started /\ last.regs = 0
    /\ rows = 2 /\ cols = 2
    /\ grid[0][0] > 0 /\ grid[1][1] = 0

\* the (row, col) pairs a click can ask toggleCell for
ClickCells ==
    {<<y \div CELL_SIZE, x \div CELL_SIZE>> : y \in ClickOffsets, x \in ClickOffsets}

\* C7: for an in-bounds (row, col) toggleCell sets the cell to 3 if it was 0
\* and to 0 if it was positive and changes no other cell, toggling a dead cell
\* twice gives back the grid as it was, and a click that lands in the grid
\* changes the grid by exactly one such toggle.
C7_Toggle ==
    /\ [](\A p \in ClickCells \cap Cells :
            LET row == p[1]
                col == p[2]
                once == toggleCell(grid, rows, cols, row, col).grid
                twice == toggleCell(once, rows, cols, row, col).grid
            IN  /\ grid[row][col] = 0 => once[row][col] = 3
                /\ grid[row][col] > 0 => once[row][col] = 0
                /\ DOMAIN once = DOMAIN grid
                /\ \A q \in Cells :
                      /\ DOMAIN once[q[1]] = DOMAIN grid[q[1]]
                      /\ q # p => once[q[1]][q[2]] = grid[q[1]][q[2]]
                /\ grid[row][col] = 0 => twice = grid)
    /\ [][(last'.op = "click" /\ last'.hit) =>
            /\ rows' = rows /\ cols' = cols
            /\ \E p \in ClickCells \cap Cells :
                  grid' = toggleCell(grid, rows, cols, p[1], p[2]).grid]_vars

\* a click has just killed a live cell of a grid that holds another live cell
C7_Witness ==
    /\ last.op = "click" /\ last.hit
    /\ \E p \in Cells : grid[p[1]][p[2]] = 0
    /\ \E p \in Cells : grid[p[1]][p[2]] > 0

\* C8: toggleCell(row, col) with row < 0, row >= rows, col < 0 or col >= cols
\* changes nothing and indexes nothing out of range, and a click that asks
\* for it leaves grid, rows, cols, isPlaying, speed and lastUpdate unchanged;
\* every click on a grid with rows = 0 or cols = 0 is such a click.
C8_ToggleOutOfBounds ==
    /\ [](\A p \in ClickCells :
            (p[1] < 0 \/ p[1] >= rows \/ p[2] < 0 \/ p[2] >= cols) =>
                LET r == toggleCell(grid, rows, cols, p[1], p[2])
                IN  r.grid = grid /\ ~r.hit /\ ~r.oob)
    /\ []((last.op = "click" /\ (rows = 0 \/ cols = 0)) => ~last.hit)
    /\ [][(last'.op = "click" /\ ~last'.hit) =>
            /\ grid' = grid /\ rows' = rows /\ cols' = cols
            /\ isPlaying' = isPlaying /\ speed' = speed
            /\ lastUpdate' = lastUpdate
            /\ ~last'.oob]_vars

\* a click on a grid without cells was ignored
C8_Witness ==
    /\ last.op = "click" /\ ~last.hit /\ ~last.oob
    /\ (rows = 0 \/ cols = 0)

\* C9: when rows = 0 or cols = 0 a generation advance, by Step or by the
\* frame callback, calls countNeighbors not once, evaluates no `% 0`, indexes
\* nothing out of range and leaves the zero-cell grid and its dimensions as
\* they were.
C9_ZeroDimensionAdvance ==
    [][(last'.gens = 1 /\ (rows = 0 \/ cols = 0)) =>
          /\ last'.calls = 0
          /\ ~last'.modzero /\ ~last'.oob
          /\ grid' = grid /\ rows' = rows /\ cols' = cols
          /\ Length(grid') = rows
          /\ \A i \in DOMAIN grid' : Length(grid'[i]) = 0]_vars

\* the frame callback advanced a generation on a grid of rows > 0 and no
\* column
C9_Witness ==
    /\ last.op = "animate" /\ last.gens = 1
    /\ rows > 0 /\ cols = 0

\* C11 as claimed: on every grid with rows, cols >= 1 a live cell that is the
\* only live cell is dead after one computeNextGeneration.
C11_LoneCellDiesEverywhere ==
    \A p \in Cells :
        OnlyLive(p[1], p[2]) =>
            computeNextGeneration(grid, rows, cols).grid[p[1]][p[2]] = 0

\* C11 (amended): a live cell that is the only live cell is dead after one
\* computeNextGeneration when rows, cols >= 2 (it has no live neighbour) and
\* on the 1 x 1 grid (it counts itself 8 times); when exactly one of rows,
\* cols is 1 it counts itself twice and survives holding 2.
C11_LoneCellDies ==
    \A p \in Cells :
        OnlyLive(p[1], p[2]) =>
            LET after == computeNextGeneration(grid, rows, cols).grid
                n == countNeighbors(grid, rows, cols, p[1], p[2]).count
            IN  /\ (rows >= 2 /\ cols >= 2) =>
                      n = 0 /\ after[p[1]][p[2]] = 0
                /\ (rows = 1 /\ cols = 1) =>
                      n = 8 /\ after[p[1]][p[2]] = 0
                /\ ((rows = 1 /\ cols >= 2) \/ (rows >= 2 /\ cols = 1)) =>
                      n = 2 /\ after[p[1]][p[2]] = 2

\* a lone live cell in the middle of a 3 x 3 grid, dead one generation later
C11_Witness ==
    /\ rows = 3 /\ cols = 3 /\ OnlyLive(1, 1)
    /\ computeNextGeneration(grid, rows, cols).grid[1][1] = 0

\* the cells of g that are alive
Live(g) == {p \in Cells : g[p[1]][p[2]] > 0}

\* C12: a 2 x 2 block of four cells holding 3 on an otherwise dead grid with
\* rows, cols >= 4 is a still life wherever it is placed, wrapped edges
\* included: each generation leaves the grid identical, the same four cells
\* holding 3, so the grid is the same after any k >= 1 generations.
C12_BlockStillLife ==
    [][\A p \in Cells :
          ( /\ last'.gens = 1
            /\ rows >= 4
            /\ cols >= 4
            /\ grid = PatternGrid(rows, cols,
                                  BlockCells(rows, cols, p[1], p[2])) )
          => /\ grid' = grid
             /\ \A q \in BlockCells(rows, cols, p[1], p[2]) :
                   grid'[q[1]][q[2]] = ALIVE]_vars

\* a block that straddles both wrapped edges of a 4 x 4 grid, after a Step
C12_Witness ==
    /\ last.op = "step"
    /\ last.gens = 1
    /\ rows = 4
    /\ cols = 4
    /\ grid = PatternGrid(4, 4, BlockCells(4, 4, 3, 3))

\* C13: on a grid with rows, cols >= 5 three live cells in a row are a
\* period-2 oscillator: one generation after the live cells are exactly a
\* horizontal triple they are exactly the vertical triple through the same
\* centre, and one generation after that the horizontal triple again.
C13_Blinker ==
    [][\A p \in Cells :
          (last'.gens = 1 /\ rows >= 5 /\ cols >= 5)
          => /\ Live(grid) = HorizontalTriple(rows, cols, p[1], p[2])
                => Live(grid') = VerticalTriple(rows, cols, p[1], p[2])
             /\ Live(grid) = VerticalTriple(rows, cols, p[1], p[2])
                => Live(grid') = HorizontalTriple(rows, cols, p[1], p[2])]_vars

\* the horizontal triple centred on the corner (0, 0), so wrapped, back after
\* at least two generations: its centre holds its neighbour count 2
C13_Witness ==
    /\ last.op = "step"
    /\ rows >= 5
    /\ cols >= 5
    /\ Live(grid) = HorizontalTriple(rows, cols, 0, 0)
    /\ grid[0][0] = 2

C15_EveryOperationDraws ==
    last.op \in {"playPause", "step", "clear", "random", "speed", "click"}
        => last.draws >= 1

\* C15 (amended): step, clear, randomize and toggle-at-coordinate each invoke
\* draw once, after their change to the grid (what was drawn is the grid they
\* leave); play/pause and set-speed do not invoke draw.
C15_GridOperationsDraw ==
    /\ last.op \in {"step", "clear", "random", "click"}
          => last.draws = 1 /\ drawn = Frame(rows, cols, grid)
    /\ last.op \in {"playPause", "speed"} => last.draws = 0

\* Clear has just emptied and redrawn a grid that has cells
C15_Witness ==
    /\ last.op = "clear"
    /\ last.draws = 1
    /\ rows * cols > 0
    /\ drawn = Frame(rows, cols, createEmptyGrid(rows, cols))

\* C16: at the end of every event handler and every frame callback, playing
\* or paused, the grid and dimensions last passed to draw are the current
\* grid, rows and cols.
C16_FrameCurrent ==
    drawn = Frame(rows, cols, grid)

\* a frame-driven advance has just left a surviving cell (value 2) on display
C16_Witness ==
    /\ last.op = "animate"
    /\ last.gens = 1
    /\ \E p \in Cells : grid[p[1]][p[2]] = 2
    /\ drawn = Frame(rows, cols, grid)

\* C17: a frame callback that advances a generation at timestamp t2 finds
\* speed >= 1 and lastUpdate = t1 < t2 with t2 - t1 >= 1000 / speed, and
\* leaves lastUpdate = t2; no other step writes lastUpdate, so t1 is the
\* timestamp of the previous frame-driven advance, however many frame
\* callbacks ran in between.
C17_AdvanceSpacing ==
    [][IF last'.op = "animate" /\ last'.gens = 1
       THEN /\ isPlaying
            /\ speed >= 1
            /\ lastUpdate < now'
            /\ (now' - lastUpdate) * speed >= 1000
            /\ lastUpdate' = now'
       ELSE lastUpdate' = lastUpdate]_vars

\* the second frame-driven advance in a row (the horizontal triple is back,
\* its centre holding 2), one interval after the first at speed 2
C17_Witness ==
    /\ last.op = "animate"
    /\ last.gens = 1
    /\ Live(grid) = HorizontalTriple(5, 5, 2, 2)
    /\ grid[2][2] = 2
    /\ speed = 2
    /\ lastUpdate = 1000
    /\ now = 1000

\* C18: in every state after initialization the grid has exactly `rows` rows
\* of exactly `cols` cells each, and the handler that led to the state made
\* no grid access outside the grid (in countNeighbors, computeNextGeneration,
\* toggleCell or the copy loop of resizeCanvas).
C18_GridShape ==
    started =>
        /\ DOMAIN grid = 0..(rows - 1)
        /\ \A i \in 0..(rows - 1) : DOMAIN grid[i] = 0..(cols - 1)
        /\ Length(grid) = rows
        /\ \A i \in 0..(rows - 1) : Length(grid[i]) = cols
        /\ ~last.oob

\* a resize event has just cut a grid with a live cell down to 1 x 2
C18_Witness ==
    /\ started
    /\ last.op = "resize"
    /\ last.regs = 0
    /\ rows = 1
    /\ cols = 2
    /\ grid[0][1] > 0
    /\ ~last.oob

\* C19: play/pause, step, clear, randomize, speed change, click and resize
\* leave lastUpdate unchanged, only a frame callback that advances a
\* generation writes it; and the first frame callback after Play is pressed,
\* run at a timestamp t with t - lastUpdate >= 1000 / speed, advances a
\* generation at once.
C19_LastUpdateWriters ==
    [][/\ last'.op \in {"playPause", "step", "clear", "random", "speed",
                        "click", "resize"}
          => lastUpdate' = lastUpdate
       /\ lastUpdate' # lastUpdate
          => last'.op = "animate" /\ last'.gens = 1 /\ lastUpdate' = now'
       /\ ( /\ last.op = "playPause"
            /\ isPlaying
            /\ last'.op = "animate"
            /\ speed >= 1
            /\ (now' - lastUpdate) * speed >= 1000 )
          => /\ last'.gens = 1
             /\ grid' = computeNextGeneration(grid, rows, cols).grid]_vars

\* the only frame callback so far (now = 500), run after Play was pressed at
\* speed 2 with lastUpdate = 0, has advanced a generation
C19_Witness ==
    /\ last.op = "animate"
    /\ last.gens = 1
    /\ isPlaying
    /\ speed = 2
    /\ now = 500
    /\ lastUpdate = 500

\* C20: under a host that keeps running the pending frame callback at ever
\* later timestamps, if from some point on isPlaying stays true and speed
\* stays >= 1 then frame callbacks advance a generation again and again
\* (so also at least once); and a frame callback that runs while isPlaying is
\* false never advances a generation.
C20_PacerLiveness ==
    /\ (<>[](isPlaying /\ speed >= 1))
          => []<>(<<last'.op = "animate" /\ last'.gens = 1>>_vars)
    /\ [][(~isPlaying /\ last'.op = "animate")
             => (last'.gens = 0 /\ grid' = grid)]_vars

\* playing at speed 1, a frame callback has advanced a generation, a full
\* second or more after the advance before (or after the start)
C20_Witness ==
    /\ isPlaying
    /\ speed = 1
    /\ last.op = "animate"
    /\ last.gens = 1
    /\ last.draws = 1
    /\ now = 0

====
